---- MODULE Spec2Model ----
(***************************************************************************)
(* Model of the energy consumption service: the HTTP view                  *)
(* ConsumeEnergyView.post (energy/views.py), the use case consume_energy   *)
(* (energy/application/use_cases.py) and the two tables Account and        *)
(* EnergyConsumption (energy/models.py).                                   *)
(*                                                                         *)
(* Each worker p serves one request at a time.  The steps of               *)
(* consume_energy that touch the database are separate actions, so that    *)
(* TLC explores every interleaving of concurrent requests.  Writes made    *)
(* inside transaction.atomic() are kept in the worker's transaction        *)
(* (txInsert, txUpdate) until commit applies them or Rollback drops them.  *)
(*                                                                         *)
(* The database is one that honours select_for_update(): SELECT ... FOR    *)
(* UPDATE and UPDATE take an exclusive row lock held to the end of the     *)
(* transaction, statements read committed data and the transaction's own   *)
(* writes, and an insert into a unique index waits for an uncommitted      *)
(* insert of the same key by another transaction.                          *)
(***************************************************************************)
EXTENDS Integers, Sequences, FiniteSets

\* ---------------------------------------------------------------- bounds
NumWorkers == 2
MaxCalls == 3
NumAccounts == 2
MaxEnergy == 3
NumKeys == 2

Workers == 1..NumWorkers

\* Account rows that exist, each created with energy = MaxEnergy (as
\* Account.objects.create(energy=100) in tests.py setUp); the next id
\* references no row.
AccountIds == 1..NumAccounts
UnknownAccountId == NumAccounts + 1

\* Amounts range over everything up to one more than the largest balance.
MaxAmount == MaxEnergy + 1

\* ------------------------------------------------- request payloads (views)
\* A field of request.data: absent, a text that int() rejects, a JSON
\* integer val, or the JSON number val + 0.5 (int() truncates it to val).
Missing == [kind |-> "missing", val |-> 0]
NotInt == [kind |-> "text", val |-> 0]
IntVal(n) == [kind |-> "int", val |-> n]
FloatVal(n) == [kind |-> "float", val |-> n]

RawAccountIds ==
    {Missing, NotInt} \cup {IntVal(n) : n \in AccountIds \cup {UnknownAccountId}}
RawAmounts ==
    {Missing, NotInt, FloatVal(1)} \cup {IntVal(n) : n \in (-1)..MaxAmount}

\* Idempotency keys; NoKey stands for an absent or empty key.
NoKey == 0
Keys == 1..NumKeys
RawKeys == {NoKey} \cup Keys

RequestData ==
    [account_id : RawAccountIds, amount : RawAmounts, idempotency_key : RawKeys]
\* the payloads with all three fields present, integer ids and amounts, and
\* amount > 0
WellFormedData ==
    [account_id : {IntVal(n) : n \in AccountIds \cup {UnknownAccountId}},
     amount : {IntVal(n) : n \in 1..MaxAmount},
     idempotency_key : Keys]
NoRequest ==
    [account_id |-> Missing, amount |-> Missing, idempotency_key |-> NoKey]

\* Python truthiness, as used by all([...]) in post
Truthy(x) == x.kind # "missing" /\ ~(x.kind = "int" /\ x.val = 0)
\* int(x) raises TypeError/ValueError
IntFails(x) == x.kind \in {"missing", "text"}
\* int(x) otherwise
ToInt(x) == x.val

\* ------------------------------------------------------------- responses
HTTP_200_OK == 200
HTTP_400_BAD_REQUEST == 400
HTTP_404_NOT_FOUND == 404
HTTP_422_UNPROCESSABLE_ENTITY == 422

NoResponse ==
    [status |-> 0, body |-> "none", exc |-> "none",
     account_id |-> 0, remaining_energy |-> 0, amount_consumed |-> 0,
     requested |-> 0, available |-> 0]

\* Response({"error": ...}, status=400)
BadRequest(msg) ==
    [NoResponse EXCEPT !.status = HTTP_400_BAD_REQUEST, !.body = msg]

\* mutant: DoesNotExist answered as a bad request
AccountNotFound_as400 ==
    [NoResponse EXCEPT !.status = HTTP_400_BAD_REQUEST, !.body = "not_found",
                       !.exc = "DoesNotExist"]

\* except Account.DoesNotExist
AccountNotFound ==
    [NoResponse EXCEPT !.status = HTTP_404_NOT_FOUND, !.body = "not_found",
                       !.exc = "DoesNotExist"]

\* except InsufficientEnergy as exc: the body is str(exc)
InsufficientEnergy(account_id, requested, available) ==
    [NoResponse EXCEPT !.status = HTTP_422_UNPROCESSABLE_ENTITY,
                       !.body = "insufficient", !.exc = "InsufficientEnergy",
                       !.account_id = account_id, !.requested = requested,
                       !.available = available]

\* mutant: a replay answered as an error
IdempotencyReplay_asError ==
    [NoResponse EXCEPT !.status = HTTP_422_UNPROCESSABLE_ENTITY,
                       !.body = "already_processed",
                       !.exc = "IdempotencyReplay"]

\* except IdempotencyReplay
IdempotencyReplay ==
    [NoResponse EXCEPT !.status = HTTP_200_OK, !.body = "already_processed",
                       !.exc = "IdempotencyReplay"]

\* Response(result, status=200) with the dict consume_energy returns
Result(account_id, remaining_energy, amount_consumed) ==
    [NoResponse EXCEPT !.status = HTTP_200_OK, !.body = "result",
                       !.account_id = account_id,
                       !.remaining_energy = remaining_energy,
                       !.amount_consumed = amount_consumed]

VARIABLES
    Account,            \* committed Account table: id -> energy
    EnergyConsumption,  \* committed EnergyConsumption rows, in insertion order
    lock,               \* row locks on Account: id -> set of workers holding it
    pc,                 \* position of each worker in post / consume_energy
    request,            \* request.data of the request being served
    account,            \* the ORM object `account`: its energy field
    txInsert,           \* rows inserted by the open transaction, uncommitted
    txUpdate,           \* Account rows written by the open transaction
    response,           \* the Response returned by post
    calls,              \* number of requests received so far
    overlap,            \* history: workers whose call ran during this one
    locked_energy,      \* history: energy read under the row lock
    key_seen            \* history: key already committed when the request came

vars == <<Account, EnergyConsumption, lock, pc, request, account, txInsert,
          txUpdate, response, calls, overlap, locked_energy, key_seen>>

\* the arguments post passes to consume_energy
account_id(p) == ToInt(request[p].account_id)
amount(p) == ToInt(request[p].amount)
idempotency_key(p) == request[p].idempotency_key

\* ----------------------------------------------------------- the database
\* an EnergyConsumption row (id and created_at are set by the database and
\* read by nobody)
Row(a, m, k) == [account_id |-> a, amount |-> m, idempotency_key |-> k]

CommittedKeys ==
    {EnergyConsumption[i].idempotency_key : i \in 1..Len(EnergyConsumption)}

\* keys inserted by open transactions of workers other than p
PendingKeys(p) ==
    UNION {{txInsert[q][i].idempotency_key : i \in 1..Len(txInsert[q])} :
              q \in Workers \ {p}}

\* what the transaction of p reads in Account row a: its own write, if any,
\* else the committed row
TxRead(p, a) == IF a \in DOMAIN txUpdate[p] THEN txUpdate[p][a] ELSE Account[a]

\* the Account table with the writes of p's transaction applied
Applied(p) == [a \in AccountIds |-> TxRead(p, a)]

\* locks with those of p released
Released(p) == [a \in AccountIds |-> lock[a] \ {p}]

NoWrites == [a \in {} |-> 0]

\* workers inside consume_energy
InFlight ==
    {q \in Workers :
        pc[q] \in {"select", "check", "insert", "update", "refresh", "commit"}}

Init ==
    /\ Account = [a \in AccountIds |-> MaxEnergy]
    /\ EnergyConsumption = <<>>
    /\ lock = [a \in AccountIds |-> {}]
    /\ pc = [p \in Workers |-> "idle"]
    /\ request = [p \in Workers |-> NoRequest]
    /\ account = [p \in Workers |-> 0]
    /\ txInsert = [p \in Workers |-> <<>>]
    /\ txUpdate = [p \in Workers |-> NoWrites]
    /\ response = [p \in Workers |-> NoResponse]
    /\ calls = 0
    /\ overlap = [p \in Workers |-> {}]
    /\ locked_energy = [p \in Workers |-> 0]
    /\ key_seen = [p \in Workers |-> FALSE]

\* mutant: the exception is answered while the transaction stays open, so
\* its row locks are kept
Rollback_keeps_lock(p, r) ==
    /\ txInsert' = [txInsert EXCEPT ![p] = <<>>]
    /\ txUpdate' = [txUpdate EXCEPT ![p] = NoWrites]
    /\ response' = [response EXCEPT ![p] = r]
    /\ pc' = [pc EXCEPT ![p] = "done"]
    /\ UNCHANGED <<Account, EnergyConsumption, lock>>

\* transaction.atomic() left by an exception: the open transaction is rolled
\* back, its locks are released, and post answers with r
Rollback(p, r) ==
    /\ txInsert' = [txInsert EXCEPT ![p] = <<>>]
    /\ txUpdate' = [txUpdate EXCEPT ![p] = NoWrites]
    /\ lock' = Released(p)
    /\ response' = [response EXCEPT ![p] = r]
    /\ pc' = [pc EXCEPT ![p] = "done"]
    /\ UNCHANGED <<Account, EnergyConsumption>>

\* post with request.data = data, up to the call of consume_energy:
\* validation and int() coercion
post_data(p, data) ==
    /\ pc[p] = "idle"
    /\ calls < MaxCalls
    /\ calls' = calls + 1
    /\ request' = [request EXCEPT ![p] = data]
    /\ key_seen' = [key_seen EXCEPT
                       ![p] = data.idempotency_key \in CommittedKeys]
    /\ IF ~(Truthy(data.account_id) /\ Truthy(data.amount)
                /\ data.idempotency_key # NoKey)
         THEN /\ response' = [response EXCEPT ![p] = BadRequest("required")]
              /\ pc' = [pc EXCEPT ![p] = "done"]
       ELSE IF IntFails(data.account_id) \/ IntFails(data.amount)
         THEN /\ response' = [response EXCEPT ![p] = BadRequest("integers")]
              /\ pc' = [pc EXCEPT ![p] = "done"]
       ELSE IF ToInt(data.amount) <= 0
         THEN /\ response' = [response EXCEPT ![p] = BadRequest("positive")]
              /\ pc' = [pc EXCEPT ![p] = "done"]
       ELSE /\ response' = [response EXCEPT ![p] = NoResponse]
            /\ pc' = [pc EXCEPT ![p] = "select"]
    /\ overlap' = [q \in Workers |->
                       IF q = p THEN IF pc'[p] = "select" THEN InFlight ELSE {}
                       ELSE IF q \in InFlight /\ pc'[p] = "select"
                              THEN overlap[q] \cup {p} ELSE overlap[q]]
    /\ UNCHANGED <<Account, EnergyConsumption, lock, account, txInsert,
                   txUpdate, locked_energy>>

\* a well-formed request arrives
post(p) == \E data \in WellFormedData : post_data(p, data)

\* any request arrives
post_any(p) == \E data \in RequestData : post_data(p, data)

\* the arguments of a direct call of consume_energy, not passing through post
LedgerArgs ==
    [account_id : {IntVal(n) : n \in AccountIds \cup {UnknownAccountId}},
     amount : {IntVal(n) : n \in (-1)..MaxAmount},
     idempotency_key : Keys]

\* consume_energy(account_id, amount, idempotency_key) called directly: the
\* function validates nothing and opens the atomic block
consume_energy_called(p) ==
    /\ pc[p] = "idle"
    /\ calls < MaxCalls
    /\ calls' = calls + 1
    /\ \E args \in LedgerArgs :
          /\ request' = [request EXCEPT ![p] = args]
          /\ key_seen' = [key_seen EXCEPT
                             ![p] = args.idempotency_key \in CommittedKeys]
    /\ pc' = [pc EXCEPT ![p] = "select"]
    /\ overlap' = [q \in Workers |->
                       IF q = p THEN InFlight
                       ELSE IF q \in InFlight THEN overlap[q] \cup {p}
                       ELSE overlap[q]]
    /\ UNCHANGED <<Account, EnergyConsumption, lock, account, txInsert,
                   txUpdate, response, locked_energy>>

\* mutant: Account.objects.get(id=account_id), without select_for_update
select_for_update_nolock(p) ==
    /\ pc[p] = "select"
    /\ IF account_id(p) \notin AccountIds
         THEN /\ Rollback(p, AccountNotFound)
              /\ UNCHANGED <<account, locked_energy>>
         ELSE /\ account' = [account EXCEPT ![p] = Account[account_id(p)]]
              /\ locked_energy' =
                    [locked_energy EXCEPT ![p] = Account[account_id(p)]]
              /\ pc' = [pc EXCEPT ![p] = "check"]
              /\ UNCHANGED <<Account, EnergyConsumption, lock, txInsert,
                             txUpdate, response>>
    /\ UNCHANGED <<request, calls, overlap, key_seen>>

\* mutant: a lock on the whole Account table instead of the one row
select_for_update_tablelock(p) ==
    /\ pc[p] = "select"
    /\ IF account_id(p) \notin AccountIds
         THEN /\ Rollback(p, AccountNotFound)
              /\ UNCHANGED <<account, locked_energy>>
         ELSE /\ \A a \in AccountIds : lock[a] = {}
              /\ lock' = [lock EXCEPT ![account_id(p)] = {p}]
              /\ account' = [account EXCEPT ![p] = Account[account_id(p)]]
              /\ locked_energy' =
                    [locked_energy EXCEPT ![p] = Account[account_id(p)]]
              /\ pc' = [pc EXCEPT ![p] = "check"]
              /\ UNCHANGED <<Account, EnergyConsumption, txInsert, txUpdate,
                             response>>
    /\ UNCHANGED <<request, calls, overlap, key_seen>>

\* Account.objects.select_for_update().get(id=account_id): raises
\* DoesNotExist when there is no such row, else waits for the row lock, takes
\* it and reads the committed row
select_for_update(p) ==
    /\ pc[p] = "select"
    /\ IF account_id(p) \notin AccountIds
         THEN /\ Rollback(p, AccountNotFound)
              /\ UNCHANGED <<account, locked_energy>>
         ELSE /\ lock[account_id(p)] = {}
              /\ lock' = [lock EXCEPT ![account_id(p)] = {p}]
              /\ account' = [account EXCEPT ![p] = Account[account_id(p)]]
              /\ locked_energy' =
                    [locked_energy EXCEPT ![p] = Account[account_id(p)]]
              /\ pc' = [pc EXCEPT ![p] = "check"]
              /\ UNCHANGED <<Account, EnergyConsumption, txInsert, txUpdate,
                             response>>
    /\ UNCHANGED <<request, calls, overlap, key_seen>>

\* mutant: the balance check left out
check_energy_unchecked(p) ==
    /\ pc[p] = "check"
    /\ pc' = [pc EXCEPT ![p] = "insert"]
    /\ UNCHANGED <<Account, EnergyConsumption, lock, txInsert, txUpdate,
                   response, request, account, calls, overlap, locked_energy,
                   key_seen>>

\* mutant: the key looked up before the balance is compared
check_energy_keyfirst(p) ==
    /\ pc[p] = "check"
    /\ IF idempotency_key(p) \in CommittedKeys
         THEN Rollback(p, IdempotencyReplay)
         ELSE IF account[p] < amount(p)
           THEN Rollback(p, InsufficientEnergy(account_id(p), amount(p),
                                               account[p]))
           ELSE /\ pc' = [pc EXCEPT ![p] = "insert"]
                /\ UNCHANGED <<Account, EnergyConsumption, lock, txInsert,
                               txUpdate, response>>
    /\ UNCHANGED <<request, account, calls, overlap, locked_energy, key_seen>>

\* mutant: if account.energy <= amount
check_energy_offbyone(p) ==
    /\ pc[p] = "check"
    /\ IF account[p] <= amount(p)
         THEN Rollback(p, InsufficientEnergy(account_id(p), amount(p), account[p]))
         ELSE /\ pc' = [pc EXCEPT ![p] = "insert"]
              /\ UNCHANGED <<Account, EnergyConsumption, lock, txInsert,
                             txUpdate, response>>
    /\ UNCHANGED <<request, account, calls, overlap, locked_energy, key_seen>>

\* if account.energy < amount: raise InsufficientEnergy(...)
check_energy(p) ==
    /\ pc[p] = "check"
    /\ IF account[p] < amount(p)
         THEN Rollback(p, InsufficientEnergy(account_id(p), amount(p), account[p]))
         ELSE /\ pc' = [pc EXCEPT ![p] = "insert"]
              /\ UNCHANGED <<Account, EnergyConsumption, lock, txInsert,
                             txUpdate, response>>
    /\ UNCHANGED <<request, account, calls, overlap, locked_energy, key_seen>>

\* mutant: create outside any transaction, so the row is committed at once
create_consumption_autocommit(p) ==
    /\ pc[p] = "insert"
    /\ IF idempotency_key(p) \in CommittedKeys
         THEN Rollback(p, IdempotencyReplay)
         ELSE /\ EnergyConsumption' =
                    Append(EnergyConsumption,
                           Row(account_id(p), amount(p), idempotency_key(p)))
              /\ pc' = [pc EXCEPT ![p] = "update"]
              /\ UNCHANGED <<Account, lock, txInsert, txUpdate, response>>
    /\ UNCHANGED <<request, account, calls, overlap, locked_energy, key_seen>>

\* mutant: EnergyConsumption.objects.update_or_create(idempotency_key=...),
\* which rewrites the row of a key that exists
create_consumption_upsert(p) ==
    /\ pc[p] = "insert"
    /\ IF idempotency_key(p) \in CommittedKeys
         THEN /\ EnergyConsumption' =
                    [i \in 1..Len(EnergyConsumption) |->
                        IF EnergyConsumption[i].idempotency_key = idempotency_key(p)
                          THEN Row(account_id(p), amount(p), idempotency_key(p))
                          ELSE EnergyConsumption[i]]
              /\ UNCHANGED txInsert
         ELSE /\ idempotency_key(p) \notin PendingKeys(p)
              /\ txInsert' = [txInsert EXCEPT ![p] =
                    Append(@, Row(account_id(p), amount(p), idempotency_key(p)))]
              /\ UNCHANGED EnergyConsumption
    /\ pc' = [pc EXCEPT ![p] = "update"]
    /\ UNCHANGED <<Account, lock, txUpdate, response, request, account, calls,
                   overlap, locked_energy, key_seen>>

\* mutant: idempotency_key declared without unique=True
create_consumption_nounique(p) ==
    /\ pc[p] = "insert"
    /\ txInsert' = [txInsert EXCEPT ![p] =
          Append(@, Row(account_id(p), amount(p), idempotency_key(p)))]
    /\ pc' = [pc EXCEPT ![p] = "update"]
    /\ UNCHANGED <<Account, EnergyConsumption, lock, txUpdate, response,
                   request, account, calls, overlap, locked_energy, key_seen>>

\* EnergyConsumption.objects.create(...): the unique index on idempotency_key
\* rejects a key that is committed (IntegrityError -> IdempotencyReplay) and
\* makes the insert wait while another open transaction has inserted the key
create_consumption(p) ==
    /\ pc[p] = "insert"
    /\ IF idempotency_key(p) \in CommittedKeys
         THEN Rollback(p, IdempotencyReplay)
         ELSE /\ idempotency_key(p) \notin PendingKeys(p)
              /\ txInsert' = [txInsert EXCEPT ![p] =
                    Append(@, Row(account_id(p), amount(p), idempotency_key(p)))]
              /\ pc' = [pc EXCEPT ![p] = "update"]
              /\ UNCHANGED <<Account, EnergyConsumption, lock, txUpdate,
                             response>>
    /\ UNCHANGED <<request, account, calls, overlap, locked_energy, key_seen>>

\* mutant: Account.objects.update(energy=F("energy") - amount), the filter
\* on id left out, so every row is decremented
update_energy_allrows(p) ==
    /\ pc[p] = "update"
    /\ \A a \in AccountIds : lock[a] \subseteq {p}
    /\ lock' = [a \in AccountIds |-> {p}]
    /\ txUpdate' = [txUpdate EXCEPT ![p] =
          [a \in AccountIds |-> TxRead(p, a) - amount(p)]]
    /\ pc' = [pc EXCEPT ![p] = "refresh"]
    /\ UNCHANGED <<Account, EnergyConsumption, request, account, txInsert,
                   response, calls, overlap, locked_energy, key_seen>>

\* Account.objects.filter(id=account_id).update(energy=F("energy") - amount):
\* the database computes the new value from the row as the transaction sees
\* it; an UPDATE takes the row lock, waiting for any other holder
update_energy(p) ==
    /\ pc[p] = "update"
    /\ lock[account_id(p)] \subseteq {p}
    /\ lock' = [lock EXCEPT ![account_id(p)] = {p}]
    /\ txUpdate' = [txUpdate EXCEPT ![p] =
          [a \in DOMAIN @ \cup {account_id(p)} |->
              IF a = account_id(p) THEN TxRead(p, a) - amount(p) ELSE @[a]]]
    /\ pc' = [pc EXCEPT ![p] = "refresh"]
    /\ UNCHANGED <<Account, EnergyConsumption, request, account, txInsert,
                   response, calls, overlap, locked_energy, key_seen>>

\* mutant: account.refresh_from_db() left out
refresh_from_db_skipped(p) ==
    /\ pc[p] = "refresh"
    /\ pc' = [pc EXCEPT ![p] = "commit"]
    /\ UNCHANGED <<Account, EnergyConsumption, lock, request, account,
                   txInsert, txUpdate, response, calls, overlap, locked_energy,
                   key_seen>>

\* account.refresh_from_db(), inside the atomic block
refresh_from_db(p) ==
    /\ pc[p] = "refresh"
    /\ account' = [account EXCEPT ![p] = TxRead(p, account_id(p))]
    /\ pc' = [pc EXCEPT ![p] = "commit"]
    /\ UNCHANGED <<Account, EnergyConsumption, lock, request, txInsert,
                   txUpdate, response, calls, overlap, locked_energy, key_seen>>

\* the atomic block ends normally: the transaction commits, its locks are
\* released, consume_energy returns its dict and post answers 200
commit(p) ==
    /\ pc[p] = "commit"
    /\ Account' = Applied(p)
    /\ EnergyConsumption' = EnergyConsumption \o txInsert[p]
    /\ txInsert' = [txInsert EXCEPT ![p] = <<>>]
    /\ txUpdate' = [txUpdate EXCEPT ![p] = NoWrites]
    /\ lock' = Released(p)
    /\ response' = [response EXCEPT ![p] =
                        Result(account_id(p), account[p], amount(p))]
    /\ pc' = [pc EXCEPT ![p] = "done"]
    /\ UNCHANGED <<request, account, calls, overlap, locked_energy, key_seen>>

\* an exception post does not catch (none of its except clauses matches a
\* database error): it leaves post without a Response
Unhandled ==
    [NoResponse EXCEPT !.body = "server_error", !.exc = "DatabaseError"]

\* mutant: the statements run without transaction.atomic(), each committed
\* as it is executed, so a failure leaves what was already written
store_failure_noatomic(p) ==
    /\ p \in InFlight
    /\ Account' = Applied(p)
    /\ EnergyConsumption' = EnergyConsumption \o txInsert[p]
    /\ txInsert' = [txInsert EXCEPT ![p] = <<>>]
    /\ txUpdate' = [txUpdate EXCEPT ![p] = NoWrites]
    /\ lock' = Released(p)
    /\ response' = [response EXCEPT ![p] = Unhandled]
    /\ pc' = [pc EXCEPT ![p] = "done"]
    /\ UNCHANGED <<request, account, calls, overlap, locked_energy, key_seen>>

\* the unit of work fails or is abandoned anywhere inside the atomic block
\* (database error, lost connection, request timeout): transaction.atomic()
\* rolls back and the exception leaves consume_energy and post
store_failure(p) ==
    /\ p \in InFlight
    /\ Rollback(p, Unhandled)
    /\ UNCHANGED <<request, account, calls, overlap, locked_energy, key_seen>>

\* the worker is free to serve the next request
next_request(p) ==
    /\ pc[p] = "done"
    /\ pc' = [pc EXCEPT ![p] = "idle"]
    /\ request' = [request EXCEPT ![p] = NoRequest]
    /\ account' = [account EXCEPT ![p] = 0]
    /\ response' = [response EXCEPT ![p] = NoResponse]
    /\ locked_energy' = [locked_energy EXCEPT ![p] = 0]
    /\ key_seen' = [key_seen EXCEPT ![p] = FALSE]
    /\ overlap' = [overlap EXCEPT ![p] = {}]
    /\ UNCHANGED <<Account, EnergyConsumption, lock, txInsert, txUpdate, calls>>

\* the next statement of consume_energy in worker p
consume_energy_step(p) ==
    \/ select_for_update(p)
    \/ check_energy(p)
    \/ create_consumption(p)
    \/ update_energy(p)
    \/ refresh_from_db(p)
    \/ commit(p)

Next ==
    \E p \in Workers :
        \/ post(p)
        \/ select_for_update(p)
        \/ check_energy(p)
        \/ create_consumption(p)
        \/ update_energy(p)
        \/ refresh_from_db(p)
        \/ commit(p)
        \/ next_request(p)

Spec == Init /\ [][Next]_vars

\* the same service receiving malformed requests too
NextAny ==
    \E p \in Workers :
        \/ post_any(p)
        \/ select_for_update(p)
        \/ check_energy(p)
        \/ create_consumption(p)
        \/ update_energy(p)
        \/ refresh_from_db(p)
        \/ commit(p)
        \/ next_request(p)

SpecAny == Init /\ [][NextAny]_vars

\* the same service over a database that may fail
NextFail ==
    \E p \in Workers :
        \/ post(p)
        \/ select_for_update(p)
        \/ check_energy(p)
        \/ create_consumption(p)
        \/ update_energy(p)
        \/ refresh_from_db(p)
        \/ commit(p)
        \/ store_failure(p)
        \/ next_request(p)

SpecFail == Init /\ [][NextFail]_vars

\* consume_energy called directly, with any integer amount
NextLedger ==
    \E p \in Workers :
        \/ consume_energy_called(p)
        \/ select_for_update(p)
        \/ check_energy(p)
        \/ create_consumption(p)
        \/ update_energy(p)
        \/ refresh_from_db(p)
        \/ commit(p)
        \/ next_request(p)

SpecLedger == Init /\ [][NextLedger]_vars

\* Fair scheduling over a database that does not fail: a worker that can run
\* its next statement does run it, and a statement waiting for a row lock or
\* for an uncommitted insert of its key is served once the holder ends
\* (strong fairness: the wait may be interrupted by other holders).
FairSpec ==
    /\ Spec
    /\ \A p \in Workers : SF_vars(consume_energy_step(p))

TypeOK ==
    /\ Account \in [AccountIds -> Int]
    /\ calls \in 0..MaxCalls
    /\ \A p \in Workers : pc[p] \in
          {"idle", "select", "check", "insert", "update", "refresh", "commit",
           "done"}

\* ------------------------------------------------------------ properties
Done(p) == pc[p] = "done"
\* the request passed validation and consume_energy was called
Called(p) == Done(p) /\ response[p].status # HTTP_400_BAD_REQUEST
Succeeded(p) == Done(p) /\ response[p].body = "result"
Raised(p, e) == Done(p) /\ response[p].exc = e

\* number of committed events carrying key k
EventsWithKey(k) ==
    Cardinality({i \in 1..Len(EnergyConsumption) :
                    EnergyConsumption[i].idempotency_key = k})

RECURSIVE SumAmounts(_)
SumAmounts(S) ==
    IF S = {} THEN 0
    ELSE LET p == CHOOSE x \in S : TRUE IN amount(p) + SumAmounts(S \ {p})

\* C1 (as claimed): a call on an existing account whose idempotency key was
\* already committed by an earlier successful call ends in IdempotencyReplay,
\* and the key still has one event only.
C1_ReplayReturned ==
    \A p \in Workers :
        (Called(p) /\ key_seen[p] /\ account_id(p) \in AccountIds) =>
            /\ response[p].exc = "IdempotencyReplay"
            /\ EventsWithKey(idempotency_key(p)) = 1

\* C2: every step either leaves the committed tables alone or persists one
\* event together with the decrement of its account by its amount; no step,
\* and so no failure path, persists one without the other.
C2_Atomicity ==
    [][\/ /\ Account' = Account
          /\ EnergyConsumption' = EnergyConsumption
       \/ \E p \in Workers :
            /\ EnergyConsumption' =
                  Append(EnergyConsumption,
                         Row(account_id(p), amount(p), idempotency_key(p)))
            /\ account_id(p) \in AccountIds
            /\ Account' = [Account EXCEPT ![account_id(p)] = @ - amount(p)]
            /\ Account' # Account
            /\ Succeeded(p)']_vars

C2_Witness ==
    \E p, q \in Workers :
        /\ Succeeded(p)
        /\ Raised(q, "IdempotencyReplay")
        /\ Len(EnergyConsumption) = 1
        /\ Account[account_id(p)] = MaxEnergy - amount(p)

\* C3: a call on an existing account that read balance e under the lock,
\* with amount <= e and a key no committed event carries, ends in success
\* with remaining_energy = e - amount and amount_consumed = amount, leaving
\* the committed balance at e - amount and exactly one event for the key.
C3_SuccessPostcondition ==
    [][\A p \in Workers :
          (/\ pc[p] \in {"check", "insert", "update", "refresh", "commit"}
           /\ pc'[p] = "done"
           /\ amount(p) <= locked_energy[p]
           /\ idempotency_key(p) \notin CommittedKeys)
          => /\ response'[p] = Result(account_id(p),
                                      locked_energy[p] - amount(p), amount(p))
             /\ Account'[account_id(p)] = locked_energy[p] - amount(p)
             /\ EventsWithKey(idempotency_key(p))' = 1]_vars

C3_Witness ==
    \E p \in Workers :
        /\ Succeeded(p)
        /\ response[p].remaining_energy = locked_energy[p] - amount(p)
        /\ response[p].amount_consumed = amount(p)
        /\ Account[account_id(p)] = locked_energy[p] - amount(p)
        /\ EventsWithKey(idempotency_key(p)) = 1

\* C4: a call whose amount exceeds the balance of its locked account ends in
\* InsufficientEnergy, with the committed tables unchanged and no event of
\* its own left behind.
C4_InsufficientNoTrace ==
    [][\A p \in Workers :
          (/\ pc[p] = "check"
           /\ pc'[p] # "check"
           /\ amount(p) > Account[account_id(p)])
          => /\ pc'[p] = "done"
             /\ response'[p] = InsufficientEnergy(account_id(p), amount(p),
                                                  Account[account_id(p)])
             /\ Account' = Account
             /\ EnergyConsumption' = EnergyConsumption
             /\ txInsert'[p] = <<>>
             /\ txUpdate'[p] = NoWrites]_vars

C4_Witness ==
    \E p \in Workers :
        /\ Raised(p, "InsufficientEnergy")
        /\ response[p].status = HTTP_422_UNPROCESSABLE_ENTITY
        /\ amount(p) > Account[account_id(p)]
        /\ Account[account_id(p)] = locked_energy[p]
        /\ EventsWithKey(idempotency_key(p)) = 0

\* the two calls of p and q, the only ones made, ran concurrently against
\* one account with distinct keys and have both returned
RacedPair(p, q) ==
    /\ p # q
    /\ calls = 2
    /\ Called(p) /\ Called(q)
    /\ q \in overlap[p]
    /\ account_id(p) \in AccountIds
    /\ account_id(q) = account_id(p)
    /\ idempotency_key(p) # idempotency_key(q)

MoreThanHalf(p) == 2 * amount(p) > MaxEnergy /\ amount(p) <= MaxEnergy

\* C5: of two concurrent calls on one account with distinct keys, each asking
\* for more than half of the starting balance and no more than all of it,
\* exactly one succeeds and the other ends in InsufficientEnergy.
C5_NoDoubleSpend ==
    \A p, q \in Workers :
        (RacedPair(p, q) /\ MoreThanHalf(p) /\ MoreThanHalf(q)) =>
            \/ Succeeded(p) /\ Raised(q, "InsufficientEnergy")
            \/ Succeeded(q) /\ Raised(p, "InsufficientEnergy")

C5_Witness ==
    \E p, q \in Workers :
        /\ RacedPair(p, q) /\ MoreThanHalf(p) /\ MoreThanHalf(q)
        /\ amount(p) < MaxEnergy
        /\ Succeeded(p)
        /\ Raised(q, "InsufficientEnergy")
        /\ response[q].available = MaxEnergy - amount(p)

\* the calls of the workers in S, the only ones made, ran concurrently
\* against one account with pairwise distinct keys and have all returned
ConcurrentBatch(S) ==
    /\ Cardinality(S) >= 2
    /\ calls = Cardinality(S)
    /\ \A p \in S : Called(p) /\ account_id(p) \in AccountIds
    /\ \A p, q \in S :
          p # q => /\ q \in overlap[p]
                   /\ account_id(p) = account_id(q)
                   /\ idempotency_key(p) # idempotency_key(q)

\* C6: N concurrent calls on one account with pairwise distinct keys whose
\* amounts sum to the starting balance all succeed; the balance ends at zero
\* and N events are persisted, one per key.
C6_NoLostUpdates ==
    \A S \in SUBSET Workers :
        (ConcurrentBatch(S) /\ SumAmounts(S) = MaxEnergy) =>
            /\ \A p \in S : Succeeded(p)
            /\ \A p \in S : Account[account_id(p)] = 0
            /\ Len(EnergyConsumption) = Cardinality(S)
            /\ \A p \in S : EventsWithKey(idempotency_key(p)) = 1

C6_Witness ==
    \E S \in SUBSET Workers :
        /\ ConcurrentBatch(S) /\ SumAmounts(S) = MaxEnergy
        /\ \A p \in S : Succeeded(p) /\ Account[account_id(p)] = 0
        /\ Len(EnergyConsumption) = Cardinality(S)

\* C7: no two committed events carry the same idempotency key.
C7_KeyUnique ==
    \A i, j \in 1..Len(EnergyConsumption) :
        EnergyConsumption[i].idempotency_key =
            EnergyConsumption[j].idempotency_key => i = j

C7_Witness ==
    \E p, q \in Workers :
        /\ p # q /\ q \in overlap[p]
        /\ idempotency_key(p) = idempotency_key(q)
        /\ account_id(p) # account_id(q)
        /\ ~key_seen[p] /\ ~key_seen[q]
        /\ Succeeded(p)
        /\ Raised(q, "IdempotencyReplay")
        /\ EventsWithKey(idempotency_key(p)) = 1

\* C8: every committed balance is >= 0.
C8_NonNegative == \A a \in AccountIds : Account[a] >= 0

C8_Witness ==
    \E p \in Workers :
        /\ Succeeded(p)
        /\ amount(p) = locked_energy[p]
        /\ Account[account_id(p)] = 0

HoldsLock(p) == pc[p] \in {"check", "insert", "update", "refresh", "commit"}

\* C9: a row lock has at most one holder; a call past select_for_update holds
\* the lock of its account, the balance it read is the committed one, and the
\* value it writes is the committed one less its amount.
C9_Serialized ==
    /\ \A a \in AccountIds : Cardinality(lock[a]) <= 1
    /\ \A p \in Workers :
          HoldsLock(p) =>
              /\ lock[account_id(p)] = {p}
              /\ locked_energy[p] = Account[account_id(p)]
              /\ pc[p] \in {"check", "insert", "update"} =>
                    account[p] = Account[account_id(p)]
              /\ pc[p] \in {"refresh", "commit"} =>
                    txUpdate[p][account_id(p)] =
                        Account[account_id(p)] - amount(p)

C9_Witness ==
    \E p, q \in Workers :
        /\ p # q /\ q \in overlap[p]
        /\ account_id(p) = account_id(q)
        /\ Succeeded(p)
        /\ pc[q] = "commit"
        /\ locked_energy[q] = MaxEnergy - amount(p)

\* C10: a call naming an account that does not exist ends in DoesNotExist,
\* answered 404, with the committed tables unchanged and no event inserted.
C10_UnknownAccount ==
    [][\A p \in Workers :
          (/\ pc[p] = "select"
           /\ pc'[p] # "select"
           /\ account_id(p) \notin AccountIds)
          => /\ pc'[p] = "done"
             /\ response'[p].exc = "DoesNotExist"
             /\ response'[p].status = HTTP_404_NOT_FOUND
             /\ Account' = Account
             /\ EnergyConsumption' = EnergyConsumption
             /\ txInsert'[p] = <<>>
             /\ txUpdate'[p] = NoWrites]_vars

C10_Witness ==
    \E p \in Workers :
        /\ Raised(p, "DoesNotExist")
        /\ response[p].status = HTTP_404_NOT_FOUND
        /\ account_id(p) = UnknownAccountId
        /\ EventsWithKey(idempotency_key(p)) = 0

\* C11: a unit of work that fails or is abandoned before commit changes
\* neither committed table, keeps nothing pending and holds no row lock
\* afterwards; whoever is in flight has committed nothing of its own, and a
\* free row can be locked by the next caller.
C11_CleanAbort ==
    /\ [][\A p \in Workers :
            (p \in InFlight /\ pc'[p] = "done" /\ response'[p].exc = "DatabaseError")
            => /\ Account' = Account
               /\ EnergyConsumption' = EnergyConsumption
               /\ txInsert'[p] = <<>>
               /\ txUpdate'[p] = NoWrites
               /\ \A a \in AccountIds : p \notin lock'[a]]_vars
    /\ [](\A p \in Workers :
            /\ Done(p) => \A a \in AccountIds : p \notin lock[a]
            /\ (pc[p] = "select" /\ account_id(p) \in AccountIds
                  /\ \A q \in Workers : ~(q \in InFlight /\ pc[q] # "select"
                                           /\ account_id(q) = account_id(p)))
               => ENABLED select_for_update(p))

\* a call was aborted after it took the row lock, nothing of it was
\* committed, and a later call on the same account has succeeded
C11_Witness ==
    \E p, q \in Workers :
        /\ p # q
        /\ Raised(p, "DatabaseError")
        /\ account_id(p) \in AccountIds
        /\ locked_energy[p] >= amount(p)
        /\ EventsWithKey(idempotency_key(p)) = 0
        /\ Succeeded(q)
        /\ account_id(q) = account_id(p)
        /\ p \notin overlap[q]
        /\ locked_energy[q] = MaxEnergy
        /\ calls = 2

\* C12 (as claimed): a direct call of consume_energy with amount <= 0 does
\* not succeed, and no event with such an amount is ever committed.
C12_NonPositiveRejected ==
    /\ \A p \in Workers : (Done(p) /\ amount(p) <= 0) => ~Succeeded(p)
    /\ \A i \in 1..Len(EnergyConsumption) : EnergyConsumption[i].amount > 0
    /\ \A a \in AccountIds : Account[a] <= MaxEnergy

\* a payload the transport is to reject: a field missing, an account_id or
\* amount that is not an integer, or an amount <= 0
Malformed(data) ==
    \/ data.account_id.kind = "missing"
    \/ data.amount.kind = "missing"
    \/ data.idempotency_key = NoKey
    \/ data.account_id.kind # "int"
    \/ data.amount.kind # "int"
    \/ data.amount.val <= 0

\* C13 (as claimed): a malformed request is answered 400 and never enters
\* consume_energy.
C13_ValidationGate ==
    \A p \in Workers :
        (pc[p] # "idle" /\ Malformed(request[p])) =>
            /\ Done(p)
            /\ response[p].status = HTTP_400_BAD_REQUEST

\* C14: a call that reached consume_energy is answered in exactly one of
\* four ways: 200 with the result payload when it committed, 404 when the
\* account does not exist, 422 when the locked balance was below the amount,
\* and 200 with the "already processed" message, never an error status,
\* when its key was committed already.
C14_OutcomeMapping ==
    \A p \in Workers :
        Called(p) =>
            \/ /\ response[p].exc = "none"
               /\ response[p].status = HTTP_200_OK
               /\ response[p].body = "result"
               /\ response[p].account_id = account_id(p)
               /\ response[p].amount_consumed = amount(p)
               /\ EventsWithKey(idempotency_key(p)) = 1
            \/ /\ response[p].exc = "DoesNotExist"
               /\ response[p].status = HTTP_404_NOT_FOUND
               /\ account_id(p) \notin AccountIds
            \/ /\ response[p].exc = "InsufficientEnergy"
               /\ response[p].status = HTTP_422_UNPROCESSABLE_ENTITY
               /\ locked_energy[p] < amount(p)
            \/ /\ response[p].exc = "IdempotencyReplay"
               /\ response[p].status = HTTP_200_OK
               /\ response[p].body = "already_processed"
               /\ EventsWithKey(idempotency_key(p)) = 1

C14_Witness ==
    \E p, q \in Workers :
        /\ Succeeded(p) /\ response[p].status = HTTP_200_OK
        /\ Raised(q, "IdempotencyReplay")
        /\ response[q].status = HTTP_200_OK
        /\ response[q].body # response[p].body
        /\ idempotency_key(p) = idempotency_key(q)

\* C15: a step changes the energy of no account but the one named by the
\* call that commits in it; and a call whose account and key no other call
\* in flight shares can always take its next step, whatever locks the others
\* hold.
C15_Independence ==
    /\ [][\A a \in AccountIds :
            Account'[a] # Account[a] =>
                \E p \in Workers : /\ pc[p] = "commit" /\ pc'[p] = "done"
                                   /\ account_id(p) = a]_vars
    /\ [](\A p \in InFlight :
            (\A q \in InFlight \ {p} :
                /\ account_id(q) # account_id(p)
                /\ idempotency_key(q) # idempotency_key(p))
            => ENABLED consume_energy_step(p))

C15_Witness ==
    \E p, q \in Workers :
        /\ HoldsLock(p)
        /\ Succeeded(q) /\ p \in overlap[q]
        /\ account_id(q) # account_id(p)
        /\ idempotency_key(q) # idempotency_key(p)
        /\ Account[account_id(p)] = MaxEnergy
        /\ Account[account_id(q)] = MaxEnergy - amount(q)

\* C16: in every step the committed events stay as they are, in place, and
\* at most one event is added, by the call that ends in success in that step.
C16_AppendOnly ==
    [][/\ Len(EnergyConsumption') >= Len(EnergyConsumption)
       /\ \A i \in 1..Len(EnergyConsumption) :
             EnergyConsumption'[i] = EnergyConsumption[i]
       /\ Len(EnergyConsumption') <= Len(EnergyConsumption) + 1
       /\ Len(EnergyConsumption') = Len(EnergyConsumption) + 1 =>
             \E p \in Workers : pc[p] = "commit" /\ Succeeded(p)']_vars

C16_Witness ==
    \E p \in Workers :
        /\ Raised(p, "IdempotencyReplay")
        /\ Len(EnergyConsumption) = 2
        /\ \E i \in 1..2 :
              /\ EnergyConsumption[i].idempotency_key = idempotency_key(p)
              /\ EnergyConsumption[i].amount # amount(p)
              /\ EnergyConsumption[i].account_id # account_id(p)

\* C17 (as claimed): when a call reads the balance back for its response,
\* its unit of work is committed already: nothing of it is pending and it
\* holds no row lock.
C17_ReadAfterCommit ==
    [][\A p \in Workers :
          (pc[p] = "refresh" /\ pc'[p] # "refresh")
          => /\ txInsert[p] = <<>>
             /\ txUpdate[p] = NoWrites
             /\ p \notin lock[account_id(p)]]_vars

\* C17 (amended): the balance is read back inside the open unit of work,
\* after the decrement and before the commit, under the row lock; it is the
\* transaction's own decremented value, and the commit that follows makes
\* that value the committed balance returned as remaining_energy.
C17_ReadInsideUnit ==
    [][\A p \in Workers :
          /\ (pc[p] = "refresh" /\ pc'[p] # "refresh")
             => /\ pc'[p] = "commit"
                /\ lock[account_id(p)] = {p}
                /\ txInsert[p] # <<>>
                /\ account_id(p) \in DOMAIN txUpdate[p]
                /\ Account' = Account
                /\ account'[p] = locked_energy[p] - amount(p)
          /\ (pc[p] = "commit" /\ pc'[p] # "commit")
             => /\ Succeeded(p)'
                /\ response'[p].remaining_energy = account[p]
                /\ Account'[account_id(p)] = account[p]]_vars

C17_Witness ==
    \E p \in Workers :
        /\ pc[p] = "commit"
        /\ lock[account_id(p)] = {p}
        /\ account[p] = locked_energy[p] - amount(p)
        /\ Account[account_id(p)] = locked_energy[p]
        /\ EventsWithKey(idempotency_key(p)) = 0

\* C18: a call whose locked balance is below its amount ends in
\* InsufficientEnergy carrying requested = amount and available = the locked
\* balance, with no insert attempted, whether or not its key is committed.
C18_BalanceBeforeKey ==
    /\ [][\A p \in Workers :
            (pc[p] = "check" /\ pc'[p] # "check" /\ account[p] < amount(p))
            => /\ response'[p].exc = "InsufficientEnergy"
               /\ response'[p].requested = amount(p)
               /\ response'[p].available = account[p]
               /\ response'[p].account_id = account_id(p)
               /\ txInsert'[p] = <<>>]_vars
    /\ [](\A p \in Workers :
            (pc[p] \in {"insert", "update", "refresh", "commit"}
               \/ Raised(p, "IdempotencyReplay") \/ Succeeded(p))
            => locked_energy[p] >= amount(p))

C18_Witness ==
    \E p \in Workers :
        /\ key_seen[p]
        /\ idempotency_key(p) \in CommittedKeys
        /\ Raised(p, "InsufficientEnergy")
        /\ response[p].requested = amount(p)
        /\ response[p].available = locked_energy[p]
        /\ locked_energy[p] < amount(p)

\* sum of the amounts of the first n committed events that reference account a
RECURSIVE Consumed(_, _)
Consumed(a, n) ==
    IF n = 0 THEN 0
    ELSE Consumed(a, n - 1) +
         (IF EnergyConsumption[n].account_id = a
            THEN EnergyConsumption[n].amount ELSE 0)

\* C19: in every committed state the energy of an account plus the amounts
\* of the committed events that reference it is its initial energy, and the
\* number of committed events grows by one exactly in the steps in which a
\* call ends in success.
C19_Conservation ==
    /\ [](\A a \in AccountIds :
            Account[a] + Consumed(a, Len(EnergyConsumption)) = MaxEnergy)
    /\ [][/\ Len(EnergyConsumption') - Len(EnergyConsumption) \in {0, 1}
          /\ Len(EnergyConsumption') = Len(EnergyConsumption) + 1 <=>
                \E p \in Workers : ~Succeeded(p) /\ Succeeded(p)']_vars

C19_Witness ==
    \E a \in AccountIds :
        /\ Len(EnergyConsumption) = 2
        /\ EnergyConsumption[1].account_id = a
        /\ EnergyConsumption[2].account_id = a
        /\ Account[a] = MaxEnergy - EnergyConsumption[1].amount
                                  - EnergyConsumption[2].amount
        /\ calls = 3

\* C20: under fair scheduling every call that entered consume_energy
\* returns; it returns with exactly one of success, DoesNotExist,
\* InsufficientEnergy and IdempotencyReplay and holds no row lock afterwards;
\* and while calls are in flight at least one of them can take its next
\* step, so no set of callers waits on each other.
C20_Termination ==
    /\ \A p \in Workers : (p \in InFlight) ~> Done(p)
    /\ [](\A p \in Workers :
            Done(p) =>
              /\ response[p].exc \in {"none", "DoesNotExist",
                                      "InsufficientEnergy", "IdempotencyReplay"}
              /\ response[p].exc = "none" <=> response[p].body = "result"
              /\ \A a \in AccountIds : p \notin lock[a])
    /\ [](InFlight # {} =>
            \E p \in InFlight : ENABLED consume_energy_step(p))

\* an insert waits for the uncommitted insert of its key made by a call that
\* holds the lock of another account
C20_Witness ==
    \E p, q \in Workers :
        /\ p # q
        /\ pc[q] = "insert"
        /\ idempotency_key(q) \in PendingKeys(q)
        /\ ~ENABLED consume_energy_step(q)
        /\ pc[p] \in {"update", "refresh", "commit"}
        /\ idempotency_key(p) = idempotency_key(q)
        /\ account_id(p) # account_id(q)

====
